---- MODULE Spec2Model ----
(***************************************************************************)
(* A model of praleedsuvarna/shared-libs: the configuration loader         *)
(* (config/env.go, config/database.go), the audit trail (utils/logging.go),*)
(* the token utilities (utils/jwt.go) and the HTTP middleware.             *)
(*                                                                         *)
(* An unset environment variable and one set to the empty string are the   *)
(* same value "" here, as they are for GetEnv (os.Getenv returns "" for    *)
(* both).  log.Fatal / log.Fatalf end the process: the variable `aborted`  *)
(* records who called it, and no action is enabled afterwards.             *)
(***************************************************************************)
EXTENDS Integers, Sequences, FiniteSets, TLC

VARIABLES
    env,          \* the process environment: variable name -> value ("" = unset)
    dotenv,       \* the .env file in the working directory, or NoFile
    store,        \* the secret store: secret name -> value, or StoreErr
    once,         \* sync.Once of env.go: "fresh", "running" or "done"
    Config,       \* the package variable Config (*AppConfig), NilConfig when nil
    configMux,    \* sync.RWMutex: [writer |-> goroutine or NoOne, readers |-> set]
    loadOptions,  \* the ConfigOptions captured by the closure that once.Do ran
    loadCount,    \* how many times the closure passed to once.Do has been entered
    envChanges,   \* how many times the host has changed the environment
    pc,           \* per goroutine: where it is
    loc,          \* per goroutine: its local variables
    ret,          \* the last call that returned: goroutine, function, value
    aborted,      \* "none", or the function whose log.Fatal ended the process
    DB,           \* the package variable DB (*mongo.Client): "nil" or "client"
    auditLogs,    \* the documents of collection oms_audit_logs, in insertion order
    nextID,       \* source of primitive.NewObjectID
    clock,        \* time.Now()
    calls,        \* history of the LogAudit calls made: arguments, window, outcome
    tokens,       \* the token strings issued so far
    issues,       \* how many times a token or a token pair has been issued
    req           \* the HTTP request being served, NoRequest when none

vars == <<env, dotenv, store, once, Config, configMux, loadOptions, loadCount,
          envChanges, pc, loc, ret, aborted, DB, auditLogs, nextID, clock,
          calls, tokens, issues, req>>

configVars == <<once, Config, configMux, loadOptions, loadCount>>
dbVars     == <<DB, auditLogs, nextID, calls>>
authVars   == <<tokens, issues, req>>

----------------------------------------------------------------------------
(* Bounds *)

MaxEnvChanges == 1

Procs == {"g1", "g2"}

----------------------------------------------------------------------------
(* config/env.go: constants and types *)

ConfigVersion == "2.0.0"

ModeBasic         == "basic"
ModeSecretManager == "secret_manager"
ModeAuto          == "auto"

NilConfig == [nil |-> TRUE]

NoOne   == "nobody"
NoFile  == [nofile |-> TRUE]
StoreErr == "<error>"
NoRet   == [g |-> NoOne, fn |-> "none"]

EnvKeys == {"APP_ENV", "PORT", "GOOGLE_CLOUD_PROJECT", "USE_SECRET_MANAGER",
            "MONGO_URI", "DB_NAME", "JWT_SECRET", "NATS_URL", "ALLOWED_ORIGINS"}

\* secretMap of loadSecretsFromManager: logical secret -> environment variable
secretMap == [s \in {"mongo-uri", "db-name", "jwt-secret", "nats-url"} |->
                CASE s = "mongo-uri"  -> "MONGO_URI"
                  [] s = "db-name"    -> "DB_NAME"
                  [] s = "jwt-secret" -> "JWT_SECRET"
                  [] s = "nats-url"   -> "NATS_URL"]

Secrets == DOMAIN secretMap

\* One order in which `range secretMap` may visit the keys.  Go leaves the
\* order unspecified; each key writes its own field, so the resulting
\* configuration and whether an error is returned do not depend on it.
SecretOrder == <<"mongo-uri", "db-name", "jwt-secret", "nats-url">>

GetEnv(e, key, fallback) ==
    IF e[key] = "" THEN fallback ELSE e[key]

detectConfigMode(e) ==
    IF GetEnv(e, "GOOGLE_CLOUD_PROJECT", "") # "" THEN ModeSecretManager
    ELSE IF GetEnv(e, "USE_SECRET_MANAGER", "") = "true" THEN ModeSecretManager
    ELSE ModeBasic

getDefaultAllowedOrigins(appEnv) ==
    CASE appEnv = "production" -> "https://your-production-domain.com"
      [] appEnv = "staging"    -> "https://staging.your-domain.com"
      [] OTHER                 -> "http://localhost:5173,http://127.0.0.1:5173"

contains(slice, item) == item \in slice

\* godotenv.Load(): variables of the file are set unless already present
godotenvLoad(e, file) ==
    IF file = NoFile THEN e
    ELSE [k \in DOMAIN e |->
            IF e[k] = "" /\ k \in DOMAIN file THEN file[k] ELSE e[k]]

\* secret_manager.go; the store only knows the secrets of its own project
StoreProject == "proj"

fetchSecretFromManager(st, projectID, secretName) ==
    IF projectID = StoreProject /\ st[secretName] # StoreErr
    THEN [value |-> st[secretName], err |-> ""]
    ELSE [value |-> "", err |-> "failed to access secret"]

\* getSecretOrEnv consulting the environment variable before the secret store
getSecretOrEnv_envfirst(e, st, projectID, secretKey, envKey, fallback, allowFallback) ==
    LET r == fetchSecretFromManager(st, projectID, secretKey)
        envValue == GetEnv(e, envKey, fallback)
    IN  IF allowFallback /\ envValue # "" THEN [value |-> envValue, err |-> ""]
        ELSE IF r.err = "" THEN [value |-> r.value, err |-> ""]
        ELSE IF ~allowFallback THEN [value |-> "", err |-> r.err]
        ELSE [value |-> "", err |-> "both secret and environment variable are empty"]

\* getSecretOrEnv falling back to the environment whatever allowFallback says
getSecretOrEnv_alwaysfallback(e, st, projectID, secretKey, envKey, fallback, allowFallback) ==
    LET r == fetchSecretFromManager(st, projectID, secretKey) IN
    IF r.err = "" THEN [value |-> r.value, err |-> ""]
    ELSE LET envValue == GetEnv(e, envKey, fallback) IN
         IF envValue = ""
         THEN [value |-> "", err |-> "both secret and environment variable are empty"]
         ELSE [value |-> envValue, err |-> ""]

getSecretOrEnv(e, st, projectID, secretKey, envKey, fallback, allowFallback) ==
    LET r == fetchSecretFromManager(st, projectID, secretKey) IN
    IF r.err = "" THEN [value |-> r.value, err |-> ""]
    ELSE IF ~allowFallback THEN [value |-> "", err |-> r.err]
    ELSE LET envValue == GetEnv(e, envKey, fallback) IN
         IF envValue = ""
         THEN [value |-> "", err |-> "both secret and environment variable are empty"]
         ELSE [value |-> envValue, err |-> ""]

\* the `switch secretKey` that assigns one resolved value to its field
assignSecret(config, secretKey, value) ==
    CASE secretKey = "mongo-uri"  -> [config EXCEPT !.MongoURI = value]
      [] secretKey = "db-name"    ->
            [config EXCEPT !.DBName = IF value = "" THEN "mrexperiences_service"
                                                    ELSE value]
      [] secretKey = "jwt-secret" -> [config EXCEPT !.JWTSecret = value]
      [] secretKey = "nats-url"   -> [config EXCEPT !.NATSURL = value]

\* the `for secretKey, envKey := range secretMap` loop
RECURSIVE secretLoop(_, _, _, _, _)
secretLoop(keys, config, options, e, st) ==
    IF keys = <<>> THEN [err |-> "", config |-> config]
    ELSE LET secretKey == Head(keys)
             r == getSecretOrEnv(e, st, config.ProjectID, secretKey,
                                 secretMap[secretKey], "", options.FallbackToEnv)
             isRequired == contains(options.RequiredSecrets, secretKey)
         IN  IF r.err # "" /\ isRequired
             THEN [err |-> "required secret failed to load", config |-> config]
             ELSE secretLoop(Tail(keys),
                             assignSecret(config, secretKey,
                                          IF r.err # "" THEN "" ELSE r.value),
                             options, e, st)

withAllowedOrigins(config, e) ==
    LET envOrigins == GetEnv(e, "ALLOWED_ORIGINS", "") IN
    [config EXCEPT !.AllowedOrigins =
        IF envOrigins # "" THEN envOrigins
        ELSE getDefaultAllowedOrigins(config.AppEnv)]

\* loadSecretsFromManager without the check of the project id
loadSecretsFromManager_noproject(config, options, e, st) ==
    LET r == secretLoop(SecretOrder, config, options, e, st) IN
    IF r.err # "" THEN r
    ELSE [err |-> "", config |-> withAllowedOrigins(r.config, e)]

loadSecretsFromManager(config, options, e, st) ==
    IF config.ProjectID = ""
    THEN [err |-> "project ID is required", config |-> config]
    ELSE LET r == secretLoop(SecretOrder, config, options, e, st) IN
         IF r.err # "" THEN r
         ELSE [err |-> "", config |-> withAllowedOrigins(r.config, e)]

loadBasicConfig(config, e) ==
    [err |-> "",
     config |-> withAllowedOrigins(
                   [config EXCEPT !.MongoURI  = GetEnv(e, "MONGO_URI", ""),
                                  !.DBName    = GetEnv(e, "DB_NAME", "mrexperiences_service"),
                                  !.JWTSecret = GetEnv(e, "JWT_SECRET", ""),
                                  !.NATSURL   = GetEnv(e, "NATS_URL", "")], e)]

\* The closure LoadEnvWithOptions hands to once.Do, up to the decision
\* `if err != nil`: the configuration it built, the error, and the
\* environment as godotenv left it.
loadBody(options, e, file, st, now) ==
    LET config0 == [MongoURI |-> "", DBName |-> "", JWTSecret |-> "",
                    NATSURL |-> "", ProjectID |-> "", AllowedOrigins |-> "",
                    AppEnv |-> GetEnv(e, "APP_ENV", "development"),
                    Mode |-> options.Mode, Port |-> GetEnv(e, "PORT", "8080"),
                    Version |-> ConfigVersion, LoadTime |-> now]
        config1 == IF config0.Mode = ModeAuto
                   THEN [config0 EXCEPT !.Mode = detectConfigMode(e)]
                   ELSE config0
        e1 == IF config1.AppEnv = "development" THEN godotenvLoad(e, file) ELSE e
        config2 == [config1 EXCEPT !.ProjectID =
                      IF options.SecretManagerProject = ""
                      THEN GetEnv(e1, "GOOGLE_CLOUD_PROJECT", "")
                      ELSE options.SecretManagerProject]
        r == CASE config1.Mode = ModeSecretManager ->
                    loadSecretsFromManager(config2, options, e1, st)
               [] config1.Mode = ModeBasic -> loadBasicConfig(config1, e1)
               [] OTHER -> [err |-> "unsupported config mode", config |-> config1]
    IN  [env |-> e1, err |-> r.err, config |-> r.config]

----------------------------------------------------------------------------
(* Inputs *)

StoreValue == [s \in Secrets |->
                CASE s = "mongo-uri"  -> "mongodb://store"
                  [] s = "db-name"    -> "store-db"
                  [] s = "jwt-secret" -> "store-jwt"
                  [] s = "nats-url"   -> "nats://store"]

EnvValue == [k \in EnvKeys |->
                CASE k = "APP_ENV"              -> "production"
                  [] k = "PORT"                 -> "9090"
                  [] k = "GOOGLE_CLOUD_PROJECT" -> "proj"
                  [] k = "USE_SECRET_MANAGER"   -> "true"
                  [] k = "MONGO_URI"            -> "mongodb://env"
                  [] k = "DB_NAME"              -> "env-db"
                  [] k = "JWT_SECRET"           -> "env-jwt"
                  [] k = "NATS_URL"             -> "nats://env"
                  [] k = "ALLOWED_ORIGINS"      -> "https://app.example"]

\* the environment in which exactly the variables of `set` are set
EnvWith(set) == [k \in EnvKeys |-> IF k \in set THEN EnvValue[k] ELSE ""]

\* the store in which exactly the secrets of `avail` can be retrieved
StoreWith(avail) == [s \in Secrets |-> IF s \in avail THEN StoreValue[s] ELSE StoreErr]

DotenvFile == [MONGO_URI |-> "mongodb://dotenv", JWT_SECRET |-> "dotenv-jwt"]

Options(mode, enable, project, required, fallback) ==
    [FallbackToEnv |-> fallback, RequiredSecrets |-> required, Mode |-> mode,
     SecretManagerProject |-> project, EnableSecretManager |-> enable,
     OptionalSecrets |-> {}]

NoOptions == [none |-> TRUE]

Envs      == {EnvWith({}), EnvWith({"JWT_SECRET"}), EnvWith({"GOOGLE_CLOUD_PROJECT", "JWT_SECRET"})}
Dotenvs   == {NoFile, DotenvFile}
Stores    == {StoreWith({}), StoreWith({"mongo-uri", "jwt-secret"})}
Projects  == {"", StoreProject}
Requireds == {{}, {"jwt-secret"}}
OptionsSet ==
    {Options(ModeBasic, FALSE, "", {}, TRUE),
     Options("legacy", FALSE, "", {}, TRUE),
     Options(ModeAuto, FALSE, "", {"db-name"}, FALSE)}

EnvChanges == {<<"JWT_SECRET", "rotated-jwt">>, <<"GOOGLE_CLOUD_PROJECT", "proj">>}

----------------------------------------------------------------------------
(* State after program start *)

NoLoc == [fn |-> "", config |-> NilConfig]
NoRequest == [status |-> "none"]

\* the zero value of sync.RWMutex
FreeMux == [writer |-> NoOne, readers |-> {}]

InitRest ==
    /\ once = "fresh"
    /\ Config = NilConfig
    /\ configMux = FreeMux
    /\ loadOptions = NoOptions
    /\ loadCount = 0
    /\ envChanges = 0
    /\ pc = [g \in Procs |-> "idle"]
    /\ loc = [g \in Procs |-> NoLoc]
    /\ ret = NoRet
    /\ aborted = "none"
    /\ DB = "nil"
    /\ auditLogs = <<>>
    /\ nextID = 1
    /\ clock = 0
    /\ calls = <<>>
    /\ tokens = {}
    /\ issues = 0
    /\ req = NoRequest

Init ==
    /\ env \in Envs
    /\ dotenv \in Dotenvs
    /\ store \in Stores
    /\ InitRest

\* goroutine g is free to make a call
Running(g) == aborted = "none" /\ pc[g] = "idle"

----------------------------------------------------------------------------
(* config/env.go: LoadEnv, LoadEnvWithSecretManager, LoadEnvWithOptions *)

\* once.Do(f), first caller: runs the closure up to `if err != nil`;
\* log.Fatalf ends the process, otherwise the goroutine goes on to Lock()
onceDoFirst(g, options) ==
    LET r == loadBody(options, env, dotenv, store, clock) IN
    /\ once' = "running"
    /\ loadCount' = loadCount + 1
    /\ loadOptions' = options
    /\ env' = r.env
    /\ IF r.err # ""
       THEN /\ aborted' = "LoadEnvWithOptions"
            /\ UNCHANGED <<pc, loc>>
       ELSE /\ pc' = [pc EXCEPT ![g] = "load_lock"]
            /\ loc' = [loc EXCEPT ![g] = [fn |-> "LoadEnvWithOptions", config |-> r.config]]
            /\ UNCHANGED aborted
    /\ UNCHANGED <<Config, configMux, ret>>

\* once.Do(f) while another goroutine runs f: blocks until f has returned
onceDoWait(g) ==
    /\ pc' = [pc EXCEPT ![g] = "once_wait"]
    /\ UNCHANGED <<env, once, loadCount, loadOptions, loc, aborted, Config, configMux, ret>>

\* once.Do(f) after f has returned: returns at once
onceDoDone(g) ==
    /\ ret' = [g |-> g, fn |-> "LoadEnvWithOptions"]
    /\ UNCHANGED <<env, once, loadCount, loadOptions, pc, loc, aborted, Config, configMux>>

\* LoadEnvWithOptions whose guard is a plain flag set when the body is over:
\* a caller that arrives while the body runs runs it again
LoadEnvWithOptions_flag(g, options) ==
    /\ Running(g)
    /\ CASE once \in {"fresh", "running"} -> onceDoFirst(g, options)
         [] once = "done"                 -> onceDoDone(g)
    /\ UNCHANGED <<dotenv, store, envChanges, clock, dbVars, authVars>>

LoadEnvWithOptions(g, options) ==
    /\ Running(g)
    /\ CASE once = "fresh"   -> onceDoFirst(g, options)
         [] once = "running" -> onceDoWait(g)
         [] once = "done"    -> onceDoDone(g)
    /\ UNCHANGED <<dotenv, store, envChanges, clock, dbVars, authVars>>

\* the options LoadEnv passes: ConfigOptions{Mode: ModeAuto, FallbackToEnv: true}
LoadEnvOptions == Options(ModeAuto, FALSE, "", {}, TRUE)

LoadEnv(g) ==
    LoadEnvWithOptions(g, LoadEnvOptions)

LoadEnvWithSecretManager(g, projectID, requiredSecrets) ==
    LoadEnvWithOptions(g, Options(ModeSecretManager, TRUE, projectID, requiredSecrets, TRUE))

\* configMux.Lock()
LoadLock(g) ==
    /\ aborted = "none"
    /\ pc[g] = "load_lock"
    /\ configMux.writer = NoOne
    /\ configMux.readers = {}
    /\ configMux' = [configMux EXCEPT !.writer = g]
    /\ pc' = [pc EXCEPT ![g] = "load_assign"]
    /\ UNCHANGED <<env, dotenv, store, once, Config, loadOptions, loadCount,
                   envChanges, loc, ret, aborted, clock, dbVars, authVars>>

\* Config = config
LoadAssign(g) ==
    /\ aborted = "none"
    /\ pc[g] = "load_assign"
    /\ Config' = loc[g].config
    /\ pc' = [pc EXCEPT ![g] = "load_unlock"]
    /\ UNCHANGED <<env, dotenv, store, once, configMux, loadOptions, loadCount,
                   envChanges, loc, ret, aborted, clock, dbVars, authVars>>

\* configMux.Unlock(), and the closure returns: once.Do is done
LoadUnlock(g) ==
    /\ aborted = "none"
    /\ pc[g] = "load_unlock"
    /\ configMux' = [configMux EXCEPT !.writer = NoOne]
    /\ once' = "done"
    /\ pc' = [pc EXCEPT ![g] = "idle"]
    /\ loc' = [loc EXCEPT ![g] = NoLoc]
    /\ ret' = [g |-> g, fn |-> "LoadEnvWithOptions"]
    /\ UNCHANGED <<env, dotenv, store, Config, loadOptions, loadCount,
                   envChanges, aborted, clock, dbVars, authVars>>

\* a goroutine blocked in once.Do returns when the closure has returned
OnceReturn(g) ==
    /\ aborted = "none"
    /\ pc[g] = "once_wait"
    /\ once = "done"
    /\ pc' = [pc EXCEPT ![g] = "idle"]
    /\ ret' = [g |-> g, fn |-> "LoadEnvWithOptions"]
    /\ UNCHANGED <<env, dotenv, store, configVars, envChanges, loc, aborted,
                   clock, dbVars, authVars>>

----------------------------------------------------------------------------
(* config/env.go: the accessors *)

Accessors == {"GetMongoURI", "GetDBName", "GetJWTSecret", "GetNATSURL",
              "GetAllowedOrigins", "GetPort", "GetAppEnv", "GetConfig",
              "GetConfigMode", "IsSecretManagerEnabled"}

\* accessorValue with GetConfig returning Config itself, not a copy
accessorValue_alias(fn, config) ==
    CASE fn = "GetConfig"         -> [fn |-> fn, val |-> config, alias |-> TRUE]
      [] fn = "GetConfigMode"     -> [fn |-> fn, val |-> config.Mode]
      [] fn = "IsSecretManagerEnabled" ->
                                     [fn |-> fn, val |-> (config.Mode = ModeSecretManager)]
      [] fn = "GetMongoURI"       -> [fn |-> fn, val |-> config.MongoURI]
      [] fn = "GetDBName"         -> [fn |-> fn, val |-> config.DBName]
      [] fn = "GetJWTSecret"      -> [fn |-> fn, val |-> config.JWTSecret]
      [] fn = "GetNATSURL"        -> [fn |-> fn, val |-> config.NATSURL]
      [] fn = "GetAllowedOrigins" -> [fn |-> fn, val |-> config.AllowedOrigins]
      [] fn = "GetPort"           -> [fn |-> fn, val |-> config.Port]
      [] fn = "GetAppEnv"         -> [fn |-> fn, val |-> config.AppEnv]

\* what accessor fn returns when Config is not nil; GetConfig returns the
\* address of a copy, which `alias` = FALSE records
accessorValue(fn, config) ==
    CASE fn = "GetMongoURI"       -> [fn |-> fn, val |-> config.MongoURI]
      [] fn = "GetDBName"         -> [fn |-> fn, val |-> config.DBName]
      [] fn = "GetJWTSecret"      -> [fn |-> fn, val |-> config.JWTSecret]
      [] fn = "GetNATSURL"        -> [fn |-> fn, val |-> config.NATSURL]
      [] fn = "GetAllowedOrigins" -> [fn |-> fn, val |-> config.AllowedOrigins]
      [] fn = "GetPort"           -> [fn |-> fn, val |-> config.Port]
      [] fn = "GetAppEnv"         -> [fn |-> fn, val |-> config.AppEnv]
      [] fn = "GetConfig"         -> [fn |-> fn, val |-> config, alias |-> FALSE]
      [] fn = "GetConfigMode"     -> [fn |-> fn, val |-> config.Mode]
      [] fn = "IsSecretManagerEnabled" ->
                                     [fn |-> fn, val |-> (config.Mode = ModeSecretManager)]

\* accessorOnNil with GetPort answering its default instead of aborting
accessorOnNil_lenient(fn) ==
    CASE fn = "GetConfigMode"          -> [fn |-> fn, val |-> ModeBasic]
      [] fn = "IsSecretManagerEnabled" -> [fn |-> fn, val |-> (ModeBasic = ModeSecretManager)]
      [] fn = "GetPort"                -> [fn |-> fn, val |-> "8080"]
      [] OTHER                         -> [fn |-> "fatal"]

\* what accessor fn does when Config is nil: "fatal", or the value it returns
accessorOnNil(fn) ==
    CASE fn = "GetConfigMode"          -> [fn |-> fn, val |-> ModeBasic]
      [] fn = "IsSecretManagerEnabled" -> [fn |-> fn, val |-> (ModeBasic = ModeSecretManager)]
      [] OTHER                         -> [fn |-> "fatal"]

\* configMux.RLock()
AccessorRLock(g, fn) ==
    /\ Running(g)
    /\ configMux.writer = NoOne
    /\ configMux' = [configMux EXCEPT !.readers = @ \cup {g}]
    /\ pc' = [pc EXCEPT ![g] = "rlocked"]
    /\ loc' = [loc EXCEPT ![g] = [fn |-> fn, config |-> NilConfig]]
    /\ UNCHANGED <<env, dotenv, store, once, Config, loadOptions, loadCount,
                   envChanges, ret, aborted, clock, dbVars, authVars>>

\* `if Config == nil {...}; return Config.X` with the deferred RUnlock()
AccessorRead(g) ==
    /\ aborted = "none"
    /\ pc[g] = "rlocked"
    /\ LET r == IF Config = NilConfig THEN accessorOnNil(loc[g].fn)
                ELSE accessorValue(loc[g].fn, Config)
       IN  IF r.fn = "fatal"
           THEN /\ aborted' = loc[g].fn
                /\ UNCHANGED <<configMux, pc, loc, ret>>
           ELSE /\ ret' = [g |-> g] @@ r
                /\ configMux' = [configMux EXCEPT !.readers = @ \ {g}]
                /\ pc' = [pc EXCEPT ![g] = "idle"]
                /\ loc' = [loc EXCEPT ![g] = NoLoc]
                /\ UNCHANGED aborted
    /\ UNCHANGED <<env, dotenv, store, once, Config, loadOptions, loadCount,
                   envChanges, clock, dbVars, authVars>>

\* The caller of GetConfig writes a field of the struct it was handed.
CallerWritesConfig(g) ==
    /\ Running(g)
    /\ ret.g = g
    /\ ret.fn = "GetConfig"
    /\ ret.val.JWTSecret # "overwritten"
    /\ IF ret.alias
       THEN /\ Config' = [Config EXCEPT !.JWTSecret = "overwritten"]
            /\ ret' = [ret EXCEPT !.val = Config']
       ELSE /\ ret' = [ret EXCEPT !.val.JWTSecret = "overwritten"]
            /\ UNCHANGED Config
    /\ UNCHANGED <<env, dotenv, store, once, configMux, loadOptions, loadCount,
                   envChanges, pc, loc, aborted, clock, dbVars, authVars>>

\* The host process changes its environment (os.Setenv).
SetEnv(k, v) ==
    /\ aborted = "none"
    /\ envChanges < MaxEnvChanges
    /\ env[k] # v
    /\ env' = [env EXCEPT ![k] = v]
    /\ envChanges' = envChanges + 1
    /\ UNCHANGED <<dotenv, store, configVars, pc, loc, ret, aborted, clock,
                   dbVars, authVars>>

----------------------------------------------------------------------------
(* config/database.go *)

\* `if Config == nil { log.Fatal }`: Config is read without configMux, so
\* while the writer is inside its critical section the read may see either
\* the old nil or the pointer being stored
ConnectDBCheck(g) ==
    /\ Running(g)
    /\ \E seen \in (IF configMux.writer # NoOne THEN {NilConfig, Config} ELSE {Config}) :
          IF seen = NilConfig
          THEN /\ aborted' = "ConnectDB"
               /\ UNCHANGED pc
          ELSE /\ pc' = [pc EXCEPT ![g] = "connect"]
               /\ UNCHANGED aborted
    /\ UNCHANGED <<env, dotenv, store, configVars, envChanges, loc, ret, clock,
                   dbVars, authVars>>

\* GetMongoURI(), GetDBName() (each under RLock), then mongo.Connect and
\* Ping, which succeed or not as the server decides
ConnectDBConnect(g) ==
    /\ aborted = "none"
    /\ pc[g] = "connect"
    /\ configMux.writer = NoOne
    /\ \E reachable \in BOOLEAN :
          IF Config = NilConfig
          THEN /\ aborted' = "GetMongoURI"
               /\ UNCHANGED <<DB, pc, ret>>
          ELSE IF Config.MongoURI = "" \/ ~reachable
          THEN /\ aborted' = "ConnectDB"
               /\ UNCHANGED <<DB, pc, ret>>
          ELSE /\ DB' = "client"
               /\ pc' = [pc EXCEPT ![g] = "idle"]
               /\ ret' = [g |-> g, fn |-> "ConnectDB"]
               /\ UNCHANGED aborted
    /\ UNCHANGED <<env, dotenv, store, configVars, envChanges, loc, clock,
                   auditLogs, nextID, calls, authVars>>

DisconnectDB(g) ==
    /\ Running(g)
    /\ DB' = "nil"
    /\ ret' = [g |-> g, fn |-> "DisconnectDB"]
    /\ UNCHANGED <<env, dotenv, store, configVars, envChanges, pc, loc, aborted,
                   clock, auditLogs, nextID, calls, authVars>>

\* GetCollection(name): "fatal:<who>" or the collection handle
GetCollection(collectionName) ==
    IF DB = "nil" THEN "fatal:GetCollection"
    ELSE IF Config = NilConfig THEN "fatal:GetDBName"
    ELSE collectionName

----------------------------------------------------------------------------
(* utils/logging.go *)

MaxAudit == 2

LogAuditTimeout == 5

InsertOutcomes == {"ok", "error", "timeout"}
OpDurations == {0, 1}

AdminIDs  == {"admin1", "admin2"}
AuditActions == {"delete_user"}
TargetIDs == {"user42", "user7"}

EmptyFilter == [k \in {} |-> ""]

Filters == {EmptyFilter} \cup {[admin_id |-> a] : a \in AdminIDs}
                          \cup {[target_id |-> t] : t \in TargetIDs}

\* AuditLog with actor and target exchanged
AuditLog_swapped(id, adminID, action, targetID, timestamp) ==
    [admin_id |-> targetID, target_id |-> adminID, action |-> action,
     timestamp |-> timestamp, _id |-> id]

\* models.AuditLog with its bson field names
AuditLog(id, adminID, action, targetID, timestamp) ==
    [admin_id |-> adminID, target_id |-> targetID, action |-> action,
     timestamp |-> timestamp, _id |-> id]

\* collection.Find(ctx, filter): the documents equal to the filter on each of its keys
Find(docs, filter) ==
    LET matches(d) == \A k \in DOMAIN filter : d[k] = filter[k]
    IN  SelectSeq(docs, matches)

\* LogAudit: the insert succeeds, fails, or runs into the context deadline;
\* a write that timed out may or may not have reached the collection
LogAudit(g, adminID, action, targetID) ==
    /\ Running(g)
    /\ configMux.writer = NoOne
    /\ Len(calls) < MaxAudit
    /\ LET collection == GetCollection("oms_audit_logs")
           log == AuditLog(nextID, adminID, action, targetID, clock)
       IN  IF collection # "oms_audit_logs"
           THEN /\ aborted' = collection
                /\ calls' = Append(calls, [adminID |-> adminID, action |-> action,
                                           targetID |-> targetID, begin |-> clock,
                                           end |-> clock, outcome |-> "fatal"])
                /\ UNCHANGED <<auditLogs, nextID, clock, ret>>
           ELSE /\ \E outcome \in InsertOutcomes, d \in OpDurations,
                      written \in BOOLEAN :
                      /\ outcome = "ok" => written
                      /\ outcome = "error" => ~written
                      /\ outcome = "timeout" => d = 0
                      /\ auditLogs' = IF written THEN Append(auditLogs, log) ELSE auditLogs
                      /\ clock' = IF outcome = "timeout" THEN clock + LogAuditTimeout
                                                         ELSE clock + d
                      /\ calls' = Append(calls, [adminID |-> adminID, action |-> action,
                                                 targetID |-> targetID, begin |-> clock,
                                                 end |-> clock', outcome |-> outcome])
                /\ nextID' = nextID + 1
                /\ ret' = [g |-> g, fn |-> "LogAudit"]
                /\ UNCHANGED aborted
    /\ UNCHANGED <<env, dotenv, store, configVars, envChanges, pc, loc, DB, authVars>>

GetAuditLogs(g, filter) ==
    /\ Running(g)
    /\ configMux.writer = NoOne
    /\ LET collection == GetCollection("oms_audit_logs") IN
       IF collection # "oms_audit_logs"
       THEN /\ aborted' = collection
            /\ UNCHANGED ret
       ELSE /\ \E ok \in BOOLEAN :
                 ret' = [g |-> g, fn |-> "GetAuditLogs",
                         err |-> IF ok THEN "" ELSE "find failed",
                         filter |-> filter,
                         logs |-> IF ok THEN Find(auditLogs, filter) ELSE <<>>]
            /\ UNCHANGED aborted
    /\ UNCHANGED <<env, dotenv, store, configVars, envChanges, pc, loc, clock,
                   dbVars, authVars>>

----------------------------------------------------------------------------
(* utils/jwt.go and the jwt library it calls *)

MaxIssues == 1

\* lifetimes in seconds
TokenTTL   == 259200
AccessTTL  == 3600
RefreshTTL == 604800

Absent    == "<absent>"      \* the claim or local is not there
NonString == "<non-string>"  \* it is there with a value that is not a string
NoIat     == {}                \* no iat claim; {n} when issued at n

UserIDs == {"u1"}
OrgIDs  == {"org1"}
Roles   == {"user", "admin", "super_admin"}

EmptyHeader == [empty |-> TRUE]
Malformed   == [malformed |-> TRUE]

\* HMAC over the signing input: equal tags need equal input and equal key
Sign(alg, claims, key) == [key |-> key, alg |-> alg, claims |-> claims]

\* jwt.NewWithClaims(jwt.SigningMethodHS256, claims).SignedString(key)
SignedString(claims, key) ==
    [alg |-> "HS256", claims |-> claims, sig |-> Sign("HS256", claims, key)]

Claims(userID, organizationID, role, type, exp, iat) ==
    [role |-> role, type |-> type, exp |-> exp, iat |-> iat,
     user_id |-> userID, organization_id |-> organizationID]

\* jwtParse that decodes the claims without verifying the signature
jwtParse_unverified(tokenString, key, now) ==
    IF tokenString = EmptyHeader \/ tokenString = Malformed
    THEN [err |-> "token is malformed"]
    ELSE IF ~(now < tokenString.claims.exp)
    THEN [err |-> "token is expired"]
    ELSE [err |-> "", claims |-> tokenString.claims]

\* jwt.Parse / jwt.ParseWithClaims with a key function returning []byte(key):
\* the token must have three well-formed segments, an HMAC method, claims
\* that are valid now (exp, iat) and a signature that verifies under key
jwtParse(tokenString, key, now) ==
    IF tokenString = EmptyHeader \/ tokenString = Malformed
    THEN [err |-> "token is malformed"]
    ELSE IF tokenString.alg \notin {"HS256", "HS384", "HS512"}
    THEN [err |-> "key is of invalid type"]
    ELSE IF ~(now < tokenString.claims.exp)
    THEN [err |-> "token is expired"]
    ELSE IF \E iat \in tokenString.claims.iat : now < iat
    THEN [err |-> "token used before issued"]
    ELSE IF tokenString.sig # Sign(tokenString.alg, tokenString.claims, key)
    THEN [err |-> "signature is invalid"]
    ELSE [err |-> "", claims |-> tokenString.claims]

\* the token GenerateToken signs
generateToken(userID, role, key, now) ==
    SignedString(Claims(userID, Absent, role, Absent, now + TokenTTL, NoIat), key)

\* the access and the refresh token GenerateTokenPair signs
generateAccessToken(userID, organizationID, role, key, now) ==
    SignedString(Claims(userID, organizationID, role, "access", now + AccessTTL, {now}), key)

generateRefreshToken(userID, key, now) ==
    SignedString(Claims(userID, Absent, Absent, "refresh", now + RefreshTTL, NoIat), key)

\* verifyRefreshToken without the check of the type claim
verifyRefreshToken_notype(tokenString, key, now) ==
    LET r == jwtParse(tokenString, key, now) IN
    IF r.err # "" THEN r.err ELSE ""

\* VerifyRefreshToken: "" or the error it returns
verifyRefreshToken(tokenString, key, now) ==
    LET r == jwtParse(tokenString, key, now) IN
    IF r.err # "" THEN r.err
    ELSE IF r.claims.type # "refresh" THEN "not a refresh token"
    ELSE ""

GenerateToken(g, userID, role) ==
    /\ Running(g)
    /\ req = NoRequest
    /\ issues < MaxIssues
    /\ issues' = issues + 1
    /\ LET t == generateToken(userID, role, env["JWT_SECRET"], clock) IN
       /\ tokens' = tokens \cup {t}
       /\ ret' = [g |-> g, fn |-> "GenerateToken", token |-> t]
    /\ UNCHANGED <<env, dotenv, store, configVars, envChanges, pc, loc, aborted,
                   clock, dbVars, req>>

GenerateTokenPair(g, userID, organizationID, role) ==
    /\ Running(g)
    /\ req = NoRequest
    /\ issues < MaxIssues
    /\ issues' = issues + 1
    /\ LET a == generateAccessToken(userID, organizationID, role, env["JWT_SECRET"], clock)
           r == generateRefreshToken(userID, env["JWT_SECRET"], clock)
       IN  /\ tokens' = tokens \cup {a, r}
           /\ ret' = [g |-> g, fn |-> "GenerateTokenPair", token |-> a, refresh |-> r]
    /\ UNCHANGED <<env, dotenv, store, configVars, envChanges, pc, loc, aborted,
                   clock, dbVars, req>>

\* What a client can present, given the tokens issued: any of them, any of
\* them altered without the key, nothing, or something that is no token.
AttackerKey == "attacker-key"

Forgeries(t) ==
    {[t EXCEPT !.claims.role = "super_admin"],
     [t EXCEPT !.claims.type = "refresh"],
     [t EXCEPT !.sig = Sign(t.alg, t.claims, AttackerKey)],
     [t EXCEPT !.alg = "none", !.sig = Sign("none", t.claims, "")]} \ {t}

Presentable == tokens \cup UNION {Forgeries(t) : t \in tokens}
                      \cup {EmptyHeader, Malformed}

VerifyRefreshToken(g, tokenString) ==
    /\ Running(g)
    /\ req = NoRequest
    /\ ret' = [g |-> g, fn |-> "VerifyRefreshToken",
               err |-> verifyRefreshToken(tokenString, env["JWT_SECRET"], clock),
               token |-> tokenString]
    /\ UNCHANGED <<env, dotenv, store, configVars, envChanges, pc, loc, aborted,
                   clock, dbVars, authVars>>

\* time passes until some issued token expires
Tick ==
    /\ aborted = "none"
    /\ \E t \in tokens : t.claims.exp > clock /\ clock' = t.claims.exp
    /\ UNCHANGED <<env, dotenv, store, configVars, envChanges, pc, loc, ret,
                   aborted, dbVars, authVars>>

----------------------------------------------------------------------------
(* the middleware package: a request travels down its chain of handlers *)

Chains == {<<"AuthMiddleware", "handler">>,
           <<"AuthMiddleware", "AdminOnly", "handler">>,
           <<"AuthMiddleware", "SuperAdminOnly", "handler">>,
           <<"AuthMiddlewareV1", "AdminOnly", "handler">>,
           <<"AdminOnly", "handler">>,
           <<"SuperAdminOnly", "handler">>}

\* SetupAuditRoutes: the /audit group runs AuthMiddleware, then AdminOnly(),
\* then the controller of the route (GetAuditLogs for GET /audit/logs)
AuditGroup == <<"AuthMiddleware", "AdminOnly", "handler">>

NoLocals == [role |-> Absent, user_id |-> Absent, organization_id |-> Absent]

\* a request arrives with an Authorization header
NewRequest(auth, chain) ==
    /\ aborted = "none"
    /\ req = NoRequest
    /\ req' = [status |-> "pending", auth |-> auth, chain |-> chain, pos |-> 1,
               locals |-> NoLocals, next |-> {}, handled |-> FALSE]
    /\ UNCHANGED <<env, dotenv, store, configVars, envChanges, pc, loc, ret,
                   aborted, clock, dbVars, tokens, issues>>

At(name) ==
    /\ aborted = "none"
    /\ req.status = "pending"
    /\ req.chain[req.pos] = name

Respond(name, status) ==
    /\ req' = [req EXCEPT !.status = status]
    /\ ret' = [g |-> "g1", fn |-> name]

\* c.Next()
CallNext(name, locals) ==
    /\ req' = [req EXCEPT !.pos = @ + 1, !.next = @ \cup {name}, !.locals = locals]
    /\ ret' = [g |-> "g1", fn |-> name]

\* x.(string)
isString(v) == v # Absent /\ v # NonString

\* AuthMiddleware: "401", "panic" (a failed type assertion), or the locals it sets
authMiddleware(tokenString, key, now, locals) ==
    IF tokenString = EmptyHeader THEN [status |-> "401"]
    ELSE LET r == jwtParse(tokenString, key, now) IN
         IF r.err # "" THEN [status |-> "401"]
         ELSE IF ~isString(r.claims.user_id) THEN [status |-> "panic"]
         ELSE IF ~isString(r.claims.organization_id) THEN [status |-> "panic"]
         ELSE [status |-> "next",
               locals |-> [role |-> IF isString(r.claims.role) THEN r.claims.role ELSE "",
                           user_id |-> r.claims.user_id,
                           organization_id |-> r.claims.organization_id]]

\* the earlier AuthMiddleware, which does not store the role
authMiddlewareV1(tokenString, key, now, locals) ==
    LET r == authMiddleware(tokenString, key, now, locals) IN
    IF r.status # "next" THEN r
    ELSE [status |-> "next", locals |-> [r.locals EXCEPT !.role = locals.role]]

AuthMiddleware ==
    /\ At("AuthMiddleware")
    /\ LET r == authMiddleware(req.auth, env["JWT_SECRET"], clock, req.locals) IN
       IF r.status = "next" THEN CallNext("AuthMiddleware", r.locals)
                            ELSE Respond("AuthMiddleware", r.status)
    /\ UNCHANGED <<env, dotenv, store, configVars, envChanges, pc, loc,
                   aborted, clock, dbVars, tokens, issues>>

AuthMiddlewareV1 ==
    /\ At("AuthMiddlewareV1")
    /\ LET r == authMiddlewareV1(req.auth, env["JWT_SECRET"], clock, req.locals) IN
       IF r.status = "next" THEN CallNext("AuthMiddlewareV1", r.locals)
                            ELSE Respond("AuthMiddlewareV1", r.status)
    /\ UNCHANGED <<env, dotenv, store, configVars, envChanges, pc, loc,
                   aborted, clock, dbVars, tokens, issues>>

\* `!ok || (role != "admin" && role != "super_admin")`
adminOnlyRejects(role) ==
    ~isString(role) \/ (role # "admin" /\ role # "super_admin")

\* superAdminOnlyRejects with the condition of AdminOnly
superAdminOnlyRejects_admin(role) ==
    ~isString(role) \/ (role # "admin" /\ role # "super_admin")

\* `!ok || role != "super_admin"`
superAdminOnlyRejects(role) ==
    ~isString(role) \/ role # "super_admin"

AdminOnly ==
    /\ At("AdminOnly")
    /\ IF adminOnlyRejects(req.locals.role) THEN Respond("AdminOnly", "403")
                                            ELSE CallNext("AdminOnly", req.locals)
    /\ UNCHANGED <<env, dotenv, store, configVars, envChanges, pc, loc,
                   aborted, clock, dbVars, tokens, issues>>

SuperAdminOnly ==
    /\ At("SuperAdminOnly")
    /\ IF superAdminOnlyRejects(req.locals.role) THEN Respond("SuperAdminOnly", "403")
                                                 ELSE CallNext("SuperAdminOnly", req.locals)
    /\ UNCHANGED <<env, dotenv, store, configVars, envChanges, pc, loc,
                   aborted, clock, dbVars, tokens, issues>>

\* the business logic at the end of the chain
Handler ==
    /\ At("handler")
    /\ req' = [req EXCEPT !.status = "200", !.handled = TRUE]
    /\ ret' = [g |-> "g1", fn |-> "handler"]
    /\ UNCHANGED <<env, dotenv, store, configVars, envChanges, pc, loc,
                   aborted, clock, dbVars, tokens, issues>>

\* the response has been written: the request is over
EndRequest ==
    /\ aborted = "none"
    /\ req.status \notin {"none", "pending"}
    /\ req' = NoRequest
    /\ UNCHANGED <<env, dotenv, store, configVars, envChanges, pc, loc, ret,
                   aborted, clock, dbVars, tokens, issues>>

----------------------------------------------------------------------------
(* The configuration loader under two goroutines *)

Next ==
    \/ \E g \in Procs : LoadEnv(g)
    \/ \E g \in Procs, p \in Projects, r \in Requireds : LoadEnvWithSecretManager(g, p, r)
    \/ \E g \in Procs, o \in OptionsSet : LoadEnvWithOptions(g, o)
    \/ \E g \in Procs : LoadLock(g)
    \/ \E g \in Procs : LoadAssign(g)
    \/ \E g \in Procs : LoadUnlock(g)
    \/ \E g \in Procs : OnceReturn(g)
    \/ \E g \in Procs, fn \in Accessors : AccessorRLock(g, fn)
    \/ \E g \in Procs : AccessorRead(g)
    \/ \E g \in Procs : CallerWritesConfig(g)
    \/ \E c \in EnvChanges : SetEnv(c[1], c[2])

Spec == Init /\ [][Next]_vars

----------------------------------------------------------------------------
(* One load, over every combination of environment, store and options *)

EnvsWide    == {EnvWith(s) : s \in SUBSET {"GOOGLE_CLOUD_PROJECT", "MONGO_URI",
                                            "DB_NAME", "JWT_SECRET"}}
StoresWide  == {StoreWith(a) : a \in SUBSET Secrets}
RequiredsWide == {{}, Secrets, {"mongo-uri", "jwt-secret"}} \cup {{x} : x \in Secrets}
OptionsWide == {Options(m, FALSE, p, r, f) :
                   m \in {ModeBasic, ModeSecretManager, ModeAuto, "legacy"},
                   p \in Projects, r \in RequiredsWide, f \in BOOLEAN}
               \cup {Options(ModeAuto, TRUE, p, {}, TRUE) : p \in Projects}

InitLoad ==
    /\ env \in EnvsWide
    /\ dotenv \in Dotenvs
    /\ store \in StoresWide
    /\ InitRest

NextLoad ==
    \/ \E o \in OptionsWide : LoadEnvWithOptions("g1", o)
    \/ LoadLock("g1")
    \/ LoadAssign("g1")
    \/ LoadUnlock("g1")

SpecLoad == InitLoad /\ [][NextLoad]_vars

----------------------------------------------------------------------------
(* The audit trail of a service that loads, connects and records *)

EnvsAudit == {EnvWith({"MONGO_URI", "JWT_SECRET"}), EnvWith({"JWT_SECRET"})}
NoStore   == StoreWith({})

InitAudit ==
    /\ env \in EnvsAudit
    /\ dotenv = NoFile
    /\ store = NoStore
    /\ InitRest

NextAudit ==
    \/ LoadEnv("g1")
    \/ LoadLock("g1")
    \/ LoadAssign("g1")
    \/ LoadUnlock("g1")
    \/ ConnectDBCheck("g1")
    \/ ConnectDBConnect("g1")
    \/ DisconnectDB("g1")
    \/ \E a \in AdminIDs, x \in AuditActions, t \in TargetIDs : LogAudit("g1", a, x, t)
    \/ \E f \in Filters : GetAuditLogs("g1", f)

SpecAudit == InitAudit /\ [][NextAudit]_vars

----------------------------------------------------------------------------
(* Tokens issued, presented and verified *)

EnvsAuth == {EnvWith({"JWT_SECRET"}), EnvWith({})}

InitAuth ==
    /\ env \in EnvsAuth
    /\ dotenv = NoFile
    /\ store = NoStore
    /\ InitRest

NextAuth ==
    \/ \E u \in UserIDs, r \in Roles : GenerateToken("g1", u, r)
    \/ \E u \in UserIDs, o \in OrgIDs, r \in Roles : GenerateTokenPair("g1", u, o, r)
    \/ \E t \in Presentable : VerifyRefreshToken("g1", t)
    \/ Tick
    \/ \E t \in Presentable, c \in Chains : NewRequest(t, c)
    \/ AuthMiddleware
    \/ AuthMiddlewareV1
    \/ AdminOnly
    \/ SuperAdminOnly
    \/ Handler
    \/ EndRequest

SpecAuth == InitAuth /\ [][NextAuth]_vars

----------------------------------------------------------------------------
(* A service that loads its configuration at startup and then issues and   *)
(* verifies tokens                                                         *)

StoresService == {NoStore, StoreWith({"jwt-secret"})}

\* a route behind AuthMiddleware alone
AuthChain == <<"AuthMiddleware", "handler">>

InitService ==
    /\ env \in EnvsAuth
    /\ dotenv = NoFile
    /\ store \in StoresService
    /\ InitRest

NextService ==
    \/ LoadEnv("g1")
    \/ LoadEnvWithSecretManager("g1", StoreProject, {})
    \/ LoadLock("g1")
    \/ LoadAssign("g1")
    \/ LoadUnlock("g1")
    \/ once = "done" /\ \E u \in UserIDs, r \in Roles : GenerateToken("g1", u, r)
    \/ once = "done" /\ \E u \in UserIDs, o \in OrgIDs, r \in Roles :
                           GenerateTokenPair("g1", u, o, r)
    \/ once = "done" /\ \E t \in Presentable : VerifyRefreshToken("g1", t)
    \/ once = "done" /\ \E t \in Presentable : NewRequest(t, AuthChain)
    \/ AuthMiddleware
    \/ Handler
    \/ EndRequest

SpecService == InitService /\ [][NextService]_vars

----------------------------------------------------------------------------
(* Startup under two goroutines: one loads, the other connects to the      *)
(* database and reads settings                                             *)

AccessorsConnect == {"GetMongoURI", "GetConfigMode"}

InitConnect ==
    /\ env \in EnvsAudit
    /\ dotenv = NoFile
    /\ store = NoStore
    /\ InitRest

NextConnect ==
    \/ \E g \in Procs : LoadEnv(g)
    \/ \E g \in Procs : LoadLock(g)
    \/ \E g \in Procs : LoadAssign(g)
    \/ \E g \in Procs : LoadUnlock(g)
    \/ \E g \in Procs : OnceReturn(g)
    \/ \E g \in Procs, fn \in AccessorsConnect : AccessorRLock(g, fn)
    \/ \E g \in Procs : AccessorRead(g)
    \/ \E g \in Procs : ConnectDBCheck(g)
    \/ \E g \in Procs : ConnectDBConnect(g)

SpecConnect == InitConnect /\ [][NextConnect]_vars

----------------------------------------------------------------------------
(* Vocabulary of the properties *)

\* the step in which once.Do enters the closure
LoadStep == once = "fresh" /\ once' = "running"

\* the mode after auto resolution, for options o in environment e
ResolvedMode(o, e) == IF o.Mode = ModeAuto THEN detectConfigMode(e) ELSE o.Mode

\* the project id available to the load: the option, else GOOGLE_CLOUD_PROJECT
ProjectOf(o, e) ==
    IF o.SecretManagerProject # "" THEN o.SecretManagerProject
    ELSE e["GOOGLE_CLOUD_PROJECT"]

\* secret s is unresolved after the secret store and the environment fallback
Unresolved(s, o, e, st) ==
    /\ ProjectOf(o, e) # StoreProject \/ st[s] = StoreErr
    /\ ~o.FallbackToEnv \/ e[secretMap[s]] = ""

\* the secret store of the load's project returns a value for secret s
StoreHas(s, o, e, st) == ProjectOf(o, e) = StoreProject /\ st[s] # StoreErr

SecretField(c, s) ==
    CASE s = "mongo-uri"  -> c.MongoURI
      [] s = "db-name"    -> c.DBName
      [] s = "jwt-secret" -> c.JWTSecret
      [] s = "nats-url"   -> c.NATSURL

\* the three conditions under which a load must fail; e0 is the environment
\* the call found, e1 the environment after the .env file was read
LoadMustFail(o, e0, e1, st) ==
    \/ ResolvedMode(o, e0) \notin {ModeBasic, ModeSecretManager}
    \/ /\ ResolvedMode(o, e0) = ModeSecretManager
       /\ \/ ProjectOf(o, e1) = ""
          \/ \E s \in Secrets \cap o.RequiredSecrets : Unresolved(s, o, e1, st)

FullyPopulated(c) ==
    /\ c.Mode \in {ModeBasic, ModeSecretManager}
    /\ c.AppEnv # "" /\ c.Port # "" /\ c.DBName # "" /\ c.AllowedOrigins # ""
    /\ c.Version = ConfigVersion
    /\ c.Mode = ModeSecretManager =>
          /\ c.ProjectID # ""
          /\ \A s \in Secrets \cap loadOptions.RequiredSecrets : SecretField(c, s) # ""

\* the configuration a load has built and is about to assign
Built(c) == \E g \in Procs : pc[g] = "load_lock" /\ loc[g].config = c

\* goroutine g's accessor performs its read in this step
ReadsNil(g) ==
    /\ pc[g] = "rlocked"
    /\ Config = NilConfig
    /\ pc'[g] = "idle" \/ (aborted = "none" /\ aborted' = loc[g].fn)

\* goroutine g reads the package variable Config in this step: an accessor
\* under its RLock, ConnectDB's check, or the accessors ConnectDB calls
ReadsConfig(g) ==
    \/ pc[g] = "rlocked" /\ (pc'[g] = "idle" \/ aborted' # aborted)
    \/ pc[g] = "idle" /\ (pc'[g] = "connect" \/ aborted' = "ConnectDB")
    \/ pc[g] = "connect" /\ (pc'[g] = "idle" \/ aborted' # aborted)

HMACMethods == {"HS256", "HS384", "HS512"}

\* the signature of token string t verifies under key
SigVerifies(t, key) ==
    /\ t # EmptyHeader
    /\ t # Malformed
    /\ t.alg \in HMACMethods
    /\ t.sig = Sign(t.alg, t.claims, key)

\* t is a token the middleware has to let through at time now
TokenValid(t, key, now) ==
    /\ SigVerifies(t, key)
    /\ now < t.claims.exp
    /\ \A iat \in t.claims.iat : iat <= now

\* the handler `name`, next in the chain, acts in this step
ActsNow(name) ==
    /\ req.status = "pending"
    /\ req.chain[req.pos] = name
    /\ req' # req

\* the handler that acts in this step calls c.Next()
InvokesNext ==
    /\ req'.status = "pending"
    /\ req'.pos = req.pos + 1

\* the handler that acts in this step answers with `status` and stops the chain
Rejects(status) ==
    /\ req'.status = status
    /\ req'.pos = req.pos
    /\ req'.next = req.next
    /\ ~req'.handled

AuthNames == {"AuthMiddleware", "AuthMiddlewareV1"}

\* the LogAudit call c falls under the query filter
CallMatches(c, filter) ==
    /\ "admin_id" \in DOMAIN filter => c.adminID = filter.admin_id
    /\ "target_id" \in DOMAIN filter => c.targetID = filter.target_id

----------------------------------------------------------------------------
(* Properties *)

\* C1: however many calls of LoadEnv, LoadEnvWithSecretManager and
\* LoadEnvWithOptions are made, concurrently or in sequence, the load body
\* is entered exactly once; every other call performs no load and leaves
\* Config as the first load set it.
C1_LoadsExactlyOnce ==
    /\ [](loadCount = IF once = "fresh" THEN 0 ELSE 1)
    /\ [][/\ once # "fresh" => loadCount' = loadCount /\ loadOptions' = loadOptions
          /\ once = "done" => Config' = Config]_vars

C1_Witness ==
    \E g \in Procs : pc[g] = "once_wait" /\ loadCount = 1 /\ Config # NilConfig

\* C2: once Config has been set, no operation changes any of its fields:
\* not a later Load* call, not an accessor, not a caller writing to the
\* struct GetConfig returned.
C2_ConfigImmutable ==
    [][Config # NilConfig => Config' = Config]_vars

C2_Witness ==
    /\ Config # NilConfig
    /\ ret.fn = "GetConfig"
    /\ ret.val.JWTSecret = "overwritten"
    /\ Config.JWTSecret # "overwritten"
    /\ envChanges > 0

\* C3: a load fails atomically: with an unsupported mode, with no project id
\* in secret-manager mode, or with a required secret unresolved, the process
\* aborts and Config is never assigned; Config is always either unset or the
\* fully populated result of a load that finished without error.
C3_LoadFailsAtomically ==
    /\ [](Config # NilConfig => FullyPopulated(Config) /\ aborted # "LoadEnvWithOptions")
    /\ [](aborted = "LoadEnvWithOptions" => Config = NilConfig)
    /\ [][LoadStep /\ LoadMustFail(loadOptions', env, env', store)
            => aborted' = "LoadEnvWithOptions" /\ Config' = NilConfig]_vars

C3_Witness ==
    /\ aborted = "LoadEnvWithOptions"
    /\ Config = NilConfig
    /\ loadOptions.Mode = ModeSecretManager
    /\ loadOptions.SecretManagerProject = StoreProject
    /\ loadOptions.RequiredSecrets # {}

\* C4 (as claimed): in secret-manager mode a secret that is required and
\* unresolved makes the load fail fatally; one that is not required and
\* unresolved leaves its configuration field empty and the load completes.
C4_OptionalSecretLeftEmpty ==
    [][LoadStep /\ ResolvedMode(loadOptions', env) = ModeSecretManager
                /\ ProjectOf(loadOptions', env') # ""
         => \A s \in Secrets :
              Unresolved(s, loadOptions', env', store) =>
                IF s \in loadOptions'.RequiredSecrets
                THEN aborted' = "LoadEnvWithOptions"
                ELSE ~LoadMustFail(loadOptions', env, env', store) =>
                       /\ aborted' = "none"
                       /\ \E g \in Procs : /\ pc'[g] = "load_lock"
                                           /\ SecretField(loc'[g].config, s) = ""]_vars

\* C4 (amended): as claimed for mongo-uri, jwt-secret and nats-url; an
\* unresolved db-name that is not required leaves DBName at the default
\* "mrexperiences_service", not empty.
C4_OptionalSecretEmptyOrDefault ==
    [][LoadStep /\ ResolvedMode(loadOptions', env) = ModeSecretManager
                /\ ProjectOf(loadOptions', env') # ""
         => \A s \in Secrets :
              Unresolved(s, loadOptions', env', store) =>
                IF s \in loadOptions'.RequiredSecrets
                THEN aborted' = "LoadEnvWithOptions"
                ELSE ~LoadMustFail(loadOptions', env, env', store) =>
                       /\ aborted' = "none"
                       /\ \E g \in Procs :
                            /\ pc'[g] = "load_lock"
                            /\ SecretField(loc'[g].config, s) =
                                 IF s = "db-name" THEN "mrexperiences_service" ELSE ""]_vars

C4_Witness ==
    \E c \in {loc[g].config : g \in Procs} :
        /\ Built(c)
        /\ c.Mode = ModeSecretManager
        /\ "mongo-uri" \in loadOptions.RequiredSecrets
        /\ Unresolved("jwt-secret", loadOptions, env, store)
        /\ Unresolved("db-name", loadOptions, env, store)
        /\ c.JWTSecret = ""
        /\ c.DBName = "mrexperiences_service"

\* C5 (as claimed): every accessor that reads Config before a load has
\* assigned it aborts the process instead of returning a value.
C5_AccessorsAbortBeforeLoad ==
    [][\A g \in Procs : ReadsNil(g) => aborted' # "none"]_vars

\* C5 (amended): every accessor except GetConfigMode and
\* IsSecretManagerEnabled aborts the process when it reads Config before a
\* load has assigned it; those two return ModeBasic and false.
C5_AccessorsAbortExceptMode ==
    [][\A g \in Procs : ReadsNil(g) =>
          CASE loc[g].fn = "GetConfigMode" ->
                  aborted' = "none" /\ ret' = [g |-> g, fn |-> loc[g].fn, val |-> ModeBasic]
            [] loc[g].fn = "IsSecretManagerEnabled" ->
                  aborted' = "none" /\ ret' = [g |-> g, fn |-> loc[g].fn, val |-> FALSE]
            [] OTHER -> aborted' = loc[g].fn]_vars

C5_Witness ==
    /\ aborted \in Accessors
    /\ once = "running"
    /\ \E g \in Procs : pc[g] = "load_lock"

\* C6: LogAudit never fails or aborts its caller: whatever the state of the
\* store connection, every call returns normally within its 5-second bound.
C6_LogAuditNeverAborts ==
    \A i \in 1..Len(calls) :
        /\ calls[i].outcome \in InsertOutcomes
        /\ calls[i].end - calls[i].begin <= LogAuditTimeout

\* C7: after successful LogAudit calls only, GetAuditLogs returns exactly one
\* entry per recorded call that matches the filter and no others, each with
\* the actor, action and target of its call and a timestamp from its window.
C7_QueryReturnsRecorded ==
    (/\ ret.fn = "GetAuditLogs"
     /\ ret.err = ""
     /\ \A i \in 1..Len(calls) : calls[i].outcome = "ok")
    => LET expected == SelectSeq(calls, LAMBDA c : CallMatches(c, ret.filter)) IN
       /\ Len(ret.logs) = Len(expected)
       /\ \A i \in 1..Len(ret.logs) :
            /\ ret.logs[i].admin_id = expected[i].adminID
            /\ ret.logs[i].action = expected[i].action
            /\ ret.logs[i].target_id = expected[i].targetID
            /\ ret.logs[i].timestamp >= expected[i].begin
            /\ ret.logs[i].timestamp <= expected[i].end
       /\ \A i, j \in 1..Len(ret.logs) : i # j => ret.logs[i]._id # ret.logs[j]._id

C7_Witness ==
    /\ ret.fn = "GetAuditLogs"
    /\ ret.err = ""
    /\ ret.filter = [target_id |-> "user42"]
    /\ Len(ret.logs) = 1
    /\ ret.logs[1].admin_id = "admin1"
    /\ Len(calls) = 2
    /\ \A i \in 1..Len(calls) : calls[i].outcome = "ok"

\* C8: AuthMiddleware invokes the next handler only for a non-empty
\* Authorization value whose signature verifies under the signing secret; for
\* a missing or invalid token it answers 401 and the next handler is never
\* invoked for that request.
C8_AuthRejectsBeforeBusinessLogic ==
    /\ [][\A name \in AuthNames : ActsNow(name) =>
            /\ InvokesNext => SigVerifies(req.auth, env["JWT_SECRET"])
            /\ ~TokenValid(req.auth, env["JWT_SECRET"], clock) => Rejects("401")]_vars
    /\ [](req.status = "401" => ~req.handled /\ req.next \cap AuthNames = {})

C8_Witness ==
    /\ req.status = "401"
    /\ req.auth \in UNION {Forgeries(t) : t \in tokens}
    /\ req.auth.sig.key = AttackerKey
    /\ req.chain[req.pos] = "AuthMiddleware"

\* C9: AdminOnly invokes the next handler if and only if the role in the
\* request context is admin or super_admin, SuperAdminOnly if and only if it
\* is super_admin; otherwise, and when no role is present, the request is
\* answered 403 and the next handler is never invoked.
C9_RoleGatesExact ==
    /\ [][/\ ActsNow("AdminOnly") =>
               IF req.locals.role \in {"admin", "super_admin"}
               THEN InvokesNext ELSE Rejects("403")
          /\ ActsNow("SuperAdminOnly") =>
               IF req.locals.role = "super_admin"
               THEN InvokesNext ELSE Rejects("403")]_vars
    /\ [](req.status = "403" => ~req.handled)

C9_Witness ==
    /\ req.status = "403"
    /\ req.locals.role = "admin"
    /\ req.chain[req.pos] = "SuperAdminOnly"

\* C10: VerifyRefreshToken accepts a token only when its signature verifies
\* under the signing secret and its type claim is refresh; a validly signed
\* token of type access or of no type is rejected, and a token with a
\* tampered signature is rejected by VerifyRefreshToken and by AuthMiddleware.
C10_RefreshTokensOnly ==
    /\ (ret.fn = "VerifyRefreshToken" /\ ret.err = "") =>
          /\ SigVerifies(ret.token, env["JWT_SECRET"])
          /\ ret.token.claims.type = "refresh"
    /\ (req.status # "none" /\ req.next \cap AuthNames # {}) =>
          SigVerifies(req.auth, env["JWT_SECRET"])

C10_Witness ==
    /\ ret.fn = "VerifyRefreshToken"
    /\ ret.err = "not a refresh token"
    /\ ret.token \in tokens
    /\ ret.token.claims.type = "access"
    /\ SigVerifies(ret.token, env["JWT_SECRET"])

\* C11: the key that signs tokens (GenerateToken, GenerateTokenPair) and
\* the key that verifies them (AuthMiddleware, VerifyRefreshToken) is the
\* signing secret of the loaded configuration, Config.JWTSecret, in every
\* configuration mode.
C11_KeyIsConfiguredSecret ==
    Config # NilConfig =>
        /\ ret.fn = "GenerateToken" => ret.token.sig.key = Config.JWTSecret
        /\ ret.fn = "GenerateTokenPair" =>
              /\ ret.token.sig.key = Config.JWTSecret
              /\ ret.refresh.sig.key = Config.JWTSecret
        /\ (ret.fn = "VerifyRefreshToken" /\ ret.err = "") =>
              SigVerifies(ret.token, Config.JWTSecret)
        /\ (req.status # "none" /\ "AuthMiddleware" \in req.next) =>
              SigVerifies(req.auth, Config.JWTSecret)

\* C12: when the load mode is auto, the mode resolves to secret-manager if
\* and only if GOOGLE_CLOUD_PROJECT is non-empty or an explicit opt-in is set
\* (the EnableSecretManager option or USE_SECRET_MANAGER=true), otherwise to
\* basic; the mode recorded in Config after a successful load is the resolved
\* mode, never auto.
C12_AutoResolvesByProjectOrOptIn ==
    /\ [][(LoadStep /\ loadOptions'.Mode = ModeAuto) =>
            LET optIn == \/ loadOptions'.EnableSecretManager
                         \/ env["USE_SECRET_MANAGER"] = "true"
                resolved == IF env["GOOGLE_CLOUD_PROJECT"] # "" \/ optIn
                            THEN ModeSecretManager ELSE ModeBasic
            IN  \A g \in Procs :
                    pc'[g] = "load_lock" => loc'[g].config.Mode = resolved]_vars
    /\ [][LoadAssign("g1") => Config'.Mode = loc["g1"].config.Mode]_vars
    /\ [](Config # NilConfig => Config.Mode # ModeAuto)

\* C13: GET /audit/logs is reachable only by a request whose authenticated
\* role is super_admin: a request with role admin never reaches the
\* GetAuditLogs handler.
C13_AllLogsSuperAdminOnly ==
    (req.status # "none" /\ req.chain = AuditGroup /\ req.handled)
        => req.locals.role = "super_admin"

\* C14: in secret-manager mode each secret is resolved through an ordered
\* chain, first success wins: the value of the secret store is used whenever
\* the store returns one, whatever the environment variable holds; only when
\* the store fails is the environment variable used, and only with
\* FallbackToEnv; without FallbackToEnv the store's error is propagated (a
\* required secret fails the load) and the environment variable is not used.
C14_StoreFirstThenEnv ==
    [][(/\ LoadStep
        /\ ResolvedMode(loadOptions', env) = ModeSecretManager
        /\ ProjectOf(loadOptions', env') # "")
         => \A s \in Secrets :
              LET o == loadOptions'
                  has == StoreHas(s, o, env', store)
                  envValue == env'[secretMap[s]]
                  unset == IF s = "db-name" THEN "mrexperiences_service" ELSE ""
              IN  /\ (~has /\ ~o.FallbackToEnv /\ s \in o.RequiredSecrets)
                         => aborted' = "LoadEnvWithOptions"
                  /\ \A g \in Procs : pc'[g] = "load_lock" =>
                        SecretField(loc'[g].config, s) =
                            IF has THEN store[s]
                            ELSE IF o.FallbackToEnv /\ envValue # "" THEN envValue
                            ELSE unset]_vars

C14_Witness ==
    \E g \in Procs :
        /\ pc[g] = "load_lock"
        /\ loc[g].config.Mode = ModeSecretManager
        /\ ~loadOptions.FallbackToEnv
        /\ StoreHas("mongo-uri", loadOptions, env, store)
        /\ env["MONGO_URI"] \notin {"", store["mongo-uri"]}
        /\ loc[g].config.MongoURI = store["mongo-uri"]
        /\ ~StoreHas("jwt-secret", loadOptions, env, store)
        /\ env["JWT_SECRET"] # ""
        /\ loc[g].config.JWTSecret = ""

\* C15: every read of Config by library code happens under the read lock
\* and the single write under the exclusive lock, so no read of Config (by
\* an accessor or by ConnectDB's check) takes place while the load holds
\* the exclusive lock for its assignment.
C15_ReadsExcludeTheWrite ==
    /\ [][\A g \in Procs : ReadsConfig(g) => configMux.writer = NoOne]_vars
    /\ [][Config' # Config =>
            \E g \in Procs : configMux.writer = g /\ pc[g] = "load_assign"]_vars
    /\ [](configMux.writer # NoOne => configMux.readers = {})

\* C16: for every token whose signature verifies under the signing secret,
\* the tokens of GenerateToken and the refresh tokens of GenerateTokenPair
\* included, AuthMiddleware either answers 401 or stores user_id,
\* organization_id and role in the request context and invokes the next
\* handler; it never panics on a missing or mis-typed claim.
C16_AuthMiddlewareNeverPanics ==
    [][(ActsNow("AuthMiddleware") /\ SigVerifies(req.auth, env["JWT_SECRET"])) =>
          \/ Rejects("401")
          \/ /\ InvokesNext
             /\ req'.locals.user_id = req.auth.claims.user_id
             /\ req'.locals.organization_id = req.auth.claims.organization_id
             /\ isString(req'.locals.role)]_vars

====
